---- MODULE Spec2Model ----
(***************************************************************************)
(* CI-Sight ml/scripts: the known-error catalog (seed_known_errors.py),    *)
(* the similarity query (find_similarity.py) and the zero-shot classifier  *)
(* front end (classify_error.py), as processes around one PostgreSQL       *)
(* table "KnownError".                                                     *)
(*                                                                         *)
(* Numbers: an embedding component, a cosine distance and a similarity are *)
(* integers; distances and similarities are in hundredths (100 = 1.0).     *)
(***************************************************************************)
EXTENDS Integers, Sequences, FiniteSets

\* ------------------------------------------------------------------ bounds
NumQueries == 2      \* concurrent find_similarity.py processes
MaxOver == 2         \* a log is at most this much longer than the window

Queries == 1..NumQueries

\* Python's None, and the absent value of an optional slot.
None == "None"

\* ------------------------------------------------- external collaborators
\* The feature-extraction pipeline: result[0][0] of the model's output for a
\* text.  A deterministic table per model name; the vectors are what the model
\* computes in double precision.
MiniLM == "sentence-transformers/all-MiniLM-L6-v2"

pipeline(model, text) ==
    IF model = MiniLM
    THEN CASE text = "npm ERR! ERESOLVE unable to resolve dependency tree" -> <<31, 40>>
           [] text = "Module not found: Can't resolve 'react'"             -> <<40, 29>>
           [] text = "SyntaxError: Unexpected token"                       -> <<1, 50>>
           [] text = "TypeError: Cannot read property 'x' of undefined"    -> <<-30, 41>>
           [] text = "FAIL src/App.test.js"                                -> <<50, -2>>
           [] text = "npm ERR! code ERESOLVE"                              -> <<60, 80>>
           [] OTHER                                                        -> <<-41, -30>>
    ELSE <<50, 0>>

\* str(list): the printed list; it is text, not a vector.
PyStr(embedding) == [text |-> embedding]

\* pgvector's vector type holds single-precision components: a printed
\* component is rounded to the nearest representable value on input.  Here
\* the representable values are the multiples of 10, so that the embedder's
\* output and the stored vector differ.
Float4(x) == 10 * ((x + 5) \div 10)

\* The cast of a '[..]' literal to vector.
VectorIn(s) == [i \in DOMAIN s.text |-> Float4(s.text[i])]

Dot(a, b) == a[1] * b[1] + a[2] * b[2]

Sqrt(n) == CHOOSE r \in 0..n : r * r <= n /\ (r + 1) * (r + 1) > n

Norm(a) == Sqrt(Dot(a, a))

Clamp(x) == IF x > 100 THEN 100 ELSE IF x < -100 THEN -100 ELSE x

\* pgvector's <=> operator: 1 - dot / sqrt(norma * normb), the quotient
\* clamped to [-1, 1].
CosineDistance(a, b) == 100 - Clamp((100 * Dot(a, b)) \div (Norm(a) * Norm(b)))

\* ------------------------------------------------------- seed_known_errors
known_errors == <<
    [errorText |-> "npm ERR! ERESOLVE unable to resolve dependency tree",
     solution  |-> "Check package.json for conflicting dependencies. Try npm install --legacy-peer-deps or update conflicting packages.",
     category  |-> "Dependency Error"],
    [errorText |-> "Module not found: Can't resolve 'react'",
     solution  |-> "Install React: npm install react react-dom",
     category  |-> "Dependency Error"],
    [errorText |-> "SyntaxError: Unexpected token",
     solution  |-> "Check for syntax errors in your code, such as missing semicolons or brackets.",
     category  |-> "Syntax Error"],
    [errorText |-> "TypeError: Cannot read property 'x' of undefined",
     solution  |-> "Add null checks or use optional chaining: obj?.x",
     category  |-> "Runtime Error"],
    [errorText |-> "FAIL src/App.test.js",
     solution  |-> "Check your test file for failing assertions. Run npm test to see detailed output.",
     category  |-> "Test Failure"] >>

\* get_embedding of seed_known_errors.py, with the embedder that script loads.
seed_get_embedding(text) == pipeline(MiniLM, text)

\* ------------------------------------------------------------ the table
\* The "KnownError" table: its rows and the next value of its id sequence.
EmptyTable == [rows |-> {}, seq |-> 1]

\* A catalog written by another authoring path before any seed of this code.
OtherTable ==
    [rows |-> { [id |-> 7, errorText |-> "ENOENT: no such file or directory",
                 errorEmbedding |-> <<30, 40>>, solution |-> "Create the file.",
                 category |-> "Runtime Error"],
                [id |-> 8, errorText |-> "error TS2304: Cannot find name",
                 errorEmbedding |-> <<-30, 40>>, solution |-> "",
                 category |-> "Syntax Error"],
                [id |-> 9, errorText |-> "ETIMEDOUT",
                 errorEmbedding |-> <<80, 60>>, solution |-> "Retry the job.",
                 category |-> "Network Error"] },
     seq |-> 10]

InitialTables == {EmptyTable, OtherTable}

\* Mutant: the table is not cleared before seeding.
TruncateNothing(table) == table

\* TRUNCATE TABLE "KnownError" RESTART IDENTITY
Truncate(table) == [rows |-> {}, seq |-> 1]

\* INSERT INTO "KnownError" (...) VALUES (%s, %s, %s, %s): the id comes from
\* the table's sequence, the embedding literal is cast to vector.
Insert(table, errorText, embedding_str, solution, category) ==
    [rows |-> table.rows \cup
              { [id |-> table.seq, errorText |-> errorText,
                 errorEmbedding |-> VectorIn(embedding_str),
                 solution |-> solution, category |-> category] },
     seq |-> table.seq + 1]

\* Mutant: the order is descending, so the farthest row comes first.
OrderByDescLimit1(rows, q) ==
    { r \in rows : \A o \in rows :
        CosineDistance(r.errorEmbedding, q) >= CosineDistance(o.errorEmbedding, q) }

\* ORDER BY "errorEmbedding" <=> %s LIMIT 1: the rows the query may return.
\* Rows at equal distance are in no defined order.
OrderByLimit1(rows, q) ==
    { r \in rows : \A o \in rows :
        CosineDistance(r.errorEmbedding, q) <= CosineDistance(o.errorEmbedding, q) }

\* SELECT id, "errorText", solution, category, 1 - ("errorEmbedding" <=> %s)
SelectList(r, q) ==
    <<r.id, r.errorText, r.solution, r.category,
      100 - CosineDistance(r.errorEmbedding, q)>>

\* Mutant: the query side loads another embedding model than the seed side.
find_get_embedding_other_model(text) ==
    pipeline("sentence-transformers/all-mpnet-base-v2", text)

\* find_similarity.py's get_embedding, with the embedder that script loads.
find_get_embedding(text) == pipeline(MiniLM, text)

\* ------------------------------------------------------------------ state
VARIABLES
    DATABASE_URL,   \* os.getenv("DATABASE_URL"): None, "" or a connection string
    committed,      \* the table as committed: what a new statement reads
    initial,        \* the table as it was at the start (history)
    txn,            \* the seeder's open transaction, <<[table, exclusive]>>, or <<>>
    seeder,         \* the seed_known_errors.py process
    query,          \* the find_similarity.py processes
    cls             \* the classify_error.py process

vars == <<DATABASE_URL, committed, initial, txn, seeder, query, cls>>

CuratedTexts == { known_errors[k].errorText : k \in 1..Len(known_errors) }

\* data.get("error_text") for the requests considered: the key missing, the
\* empty string, a text.
ErrorTextInputs ==
    {None, ""} \cup CuratedTexts \cup {"npm ERR! code ERESOLVE", "Segmentation fault"}

\* The requests of the processes that run side by side.
ConcurrentInputs == {None, "npm ERR! ERESOLVE unable to resolve dependency tree"}

NoStr == [text |-> <<>>]

\* seen: <<the rows the SELECT could read>> once it has run (history).
NewQuery ==
    [pc |-> "idle", error_text |-> None, query_embedding_str |-> NoStr,
     seen |-> <<>>, best_match_row |-> <<>>, stdout |-> <<>>, exc |-> None,
     called |-> {}]

\* replaced: <<the committed rows at the TRUNCATE>> once it has run (history).
NewSeeder == [pc |-> "idle", i |-> 0, stdout |-> <<>>, exc |-> None, replaced |-> <<>>]

NewClassify ==
    [pc |-> "idle", log_text |-> <<>>, has_log |-> FALSE, labels |-> <<>>,
     has_labels |-> FALSE, truncated_log |-> <<>>,
     result |-> [labels |-> <<>>, scores |-> <<>>],
     stdout |-> <<>>, exc |-> None, called |-> {}]

Init ==
    /\ DATABASE_URL \in {None, "", "postgresql://ci:ci@db/cisight"}
    /\ committed \in InitialTables
    /\ initial = committed
    /\ txn = <<>>
    /\ seeder = NewSeeder
    /\ query = [p \in Queries |-> NewQuery]
    /\ cls = NewClassify

\* Python truthiness of a str-or-None value.
Truthy(v) == v # None /\ v # ""

\* What a statement on the seeder's connection reads and writes: its open
\* transaction's table, else the committed one.
View == IF txn # <<>> THEN txn[1].table ELSE committed

\* TRUNCATE takes ACCESS EXCLUSIVE on the table until its transaction ends; a
\* reader holds ACCESS SHARE from its SELECT to conn.close().
ExclusiveHeld == txn # <<>> /\ txn[1].exclusive
ShareHeld == \E p \in Queries : query[p].pc = "fetched"

\* -------------------------------------------------------- find_similarity
\* Mutant: the caller error is printed with the no-match message.
FindNoTextAsNoMatch(p, t) ==
    /\ query[p].pc \in {"idle", "done", "crashed"}
    /\ ~Truthy(t)
    /\ query' = [query EXCEPT ![p] =
                    [NewQuery EXCEPT !.pc = "done", !.error_text = t,
                                     !.stdout = <<[error |-> "No matches found"]>>]]
    /\ UNCHANGED <<DATABASE_URL, committed, initial, txn, seeder, cls>>

\* A process starts (also after an earlier one has exited) and reads its input.
\* `if not error_text`: the caller error.
FindNoText(p, t) ==
    /\ query[p].pc \in {"idle", "done", "crashed"}
    /\ ~Truthy(t)
    /\ query' = [query EXCEPT ![p] =
                    [NewQuery EXCEPT !.pc = "done", !.error_text = t,
                                     !.stdout = <<[error |-> "No error_text provided"]>>]]
    /\ UNCHANGED <<DATABASE_URL, committed, initial, txn, seeder, cls>>

\* get_embedding raises: the exception is not caught and the process dies.
FindEmbedderFails(p, t) ==
    /\ query[p].pc \in {"idle", "done", "crashed"}
    /\ Truthy(t)
    /\ query' = [query EXCEPT ![p] =
                    [NewQuery EXCEPT !.pc = "crashed", !.error_text = t,
                                     !.exc = "EmbedderError",
                                     !.called = {"Embedder"}]]
    /\ UNCHANGED <<DATABASE_URL, committed, initial, txn, seeder, cls>>

\* The embedding is computed, then `if not database_url`.
FindNoUrl(p, t) ==
    /\ query[p].pc \in {"idle", "done", "crashed"}
    /\ Truthy(t)
    /\ ~Truthy(DATABASE_URL)
    /\ query' = [query EXCEPT ![p] =
                    [NewQuery EXCEPT !.pc = "done", !.error_text = t,
                                     !.query_embedding_str = PyStr(find_get_embedding(t)),
                                     !.called = {"Embedder"},
                                     !.stdout = <<[error |-> "DATABASE_URL not set in environment"]>>]]
    /\ UNCHANGED <<DATABASE_URL, committed, initial, txn, seeder, cls>>

\* psycopg2.connect succeeds.
FindConnect(p, t) ==
    /\ query[p].pc \in {"idle", "done", "crashed"}
    /\ Truthy(t)
    /\ Truthy(DATABASE_URL)
    /\ query' = [query EXCEPT ![p] =
                    [NewQuery EXCEPT !.pc = "connected", !.error_text = t,
                                     !.query_embedding_str = PyStr(find_get_embedding(t)),
                                     !.called = {"Embedder", "Store"}]]
    /\ UNCHANGED <<DATABASE_URL, committed, initial, txn, seeder, cls>>

\* psycopg2.connect raises.
FindConnectFails(p, t) ==
    /\ query[p].pc \in {"idle", "done", "crashed"}
    /\ Truthy(t)
    /\ Truthy(DATABASE_URL)
    /\ query' = [query EXCEPT ![p] =
                    [NewQuery EXCEPT !.pc = "crashed", !.error_text = t,
                                     !.query_embedding_str = PyStr(find_get_embedding(t)),
                                     !.exc = "OperationalError",
                                     !.called = {"Embedder", "Store"}]]
    /\ UNCHANGED <<DATABASE_URL, committed, initial, txn, seeder, cls>>

\* Mutant: the statement consumes the row it returns (DELETE ... RETURNING).
FindSelectDeleting(p) ==
    /\ query[p].pc = "connected"
    /\ ~ExclusiveHeld
    /\ LET q == VectorIn(query[p].query_embedding_str)
           hits == OrderByLimit1(committed.rows, q)
       IN  \/ /\ hits = {}
              /\ query' = [query EXCEPT ![p].pc = "fetched",
                                        ![p].seen = <<committed.rows>>,
                                        ![p].best_match_row = <<>>]
              /\ committed' = committed
           \/ \E r \in hits :
                /\ query' = [query EXCEPT ![p].pc = "fetched",
                                          ![p].seen = <<committed.rows>>,
                                          ![p].best_match_row = SelectList(r, q)]
                /\ committed' = [committed EXCEPT !.rows = @ \ {r}]
    /\ UNCHANGED <<DATABASE_URL, initial, txn, seeder, cls>>

\* cur.execute(SELECT ...) and cur.fetchone(): one statement, which waits
\* while a TRUNCATE's lock is held and then reads the committed table.
\* fetchone() gives None (here <<>>) when there is no row.
FindSelect(p) ==
    /\ query[p].pc = "connected"
    /\ ~ExclusiveHeld
    /\ LET q == VectorIn(query[p].query_embedding_str)
           hits == OrderByLimit1(committed.rows, q)
       IN  \/ /\ hits = {}
              /\ query' = [query EXCEPT ![p].pc = "fetched",
                                        ![p].seen = <<committed.rows>>,
                                        ![p].best_match_row = <<>>]
           \/ \E r \in hits :
                query' = [query EXCEPT ![p].pc = "fetched",
                                       ![p].seen = <<committed.rows>>,
                                       ![p].best_match_row = SelectList(r, q)]
    /\ UNCHANGED <<DATABASE_URL, committed, initial, txn, seeder, cls>>

\* Mutant: the exception is caught and the request goes on as if no row came.
FindSelectFailsSwallowed(p) ==
    /\ query[p].pc = "connected"
    /\ query' = [query EXCEPT ![p].pc = "done", ![p].exc = "DatabaseError",
                              ![p].stdout = <<[error |-> "No matches found"]>>]
    /\ UNCHANGED <<DATABASE_URL, committed, initial, txn, seeder, cls>>

\* cur.execute raises (the server went away, the table is missing).
FindSelectFails(p) ==
    /\ query[p].pc = "connected"
    /\ query' = [query EXCEPT ![p].pc = "crashed", ![p].exc = "DatabaseError"]
    /\ UNCHANGED <<DATABASE_URL, committed, initial, txn, seeder, cls>>

\* cur.close(); conn.close(); then the one print.
FindPrint(p) ==
    /\ query[p].pc = "fetched"
    /\ LET row == query[p].best_match_row
           out == IF row # <<>>
                  THEN [id |-> row[1], errorText |-> row[2], solution |-> row[3],
                        category |-> row[4], similarity |-> row[5]]
                  ELSE [error |-> "No matches found"]
       IN  query' = [query EXCEPT ![p].pc = "done", ![p].stdout = <<out>>]
    /\ UNCHANGED <<DATABASE_URL, committed, initial, txn, seeder, cls>>

find_similarity(p, inputs) ==
    \/ \E t \in inputs :
          \/ FindNoText(p, t)
          \/ FindEmbedderFails(p, t)
          \/ FindNoUrl(p, t)
          \/ FindConnect(p, t)
          \/ FindConnectFails(p, t)
    \/ FindSelect(p)
    \/ FindSelectFails(p)
    \/ FindPrint(p)

\* ------------------------------------------------------ seed_known_errors
\* `if not database_url`: the message, and return.
SeedNoUrl ==
    /\ seeder.pc \in {"idle", "done", "crashed"}
    /\ ~Truthy(DATABASE_URL)
    /\ seeder' = [NewSeeder EXCEPT !.pc = "done",
                                   !.stdout = << <<"DATABASE_URL not set in environment">> >>]
    /\ UNCHANGED <<DATABASE_URL, committed, initial, txn, query, cls>>

\* psycopg2.connect succeeds; the connection is not in autocommit mode.
SeedConnect ==
    /\ seeder.pc \in {"idle", "done", "crashed"}
    /\ Truthy(DATABASE_URL)
    /\ seeder' = [NewSeeder EXCEPT !.pc = "connected"]
    /\ UNCHANGED <<DATABASE_URL, committed, initial, txn, query, cls>>

SeedConnectFails ==
    /\ seeder.pc \in {"idle", "done", "crashed"}
    /\ Truthy(DATABASE_URL)
    /\ seeder' = [NewSeeder EXCEPT !.pc = "crashed", !.exc = "OperationalError"]
    /\ UNCHANGED <<DATABASE_URL, committed, initial, txn, query, cls>>

\* Mutant: the connection is in autocommit mode when the TRUNCATE runs.
SeedTruncateAutocommit ==
    /\ seeder.pc = "connected"
    /\ ~ShareHeld
    /\ committed' = Truncate(committed)
    /\ txn' = <<>>
    /\ seeder' = [seeder EXCEPT !.pc = "seeding",
                                !.replaced = <<committed.rows>>,
                                !.stdout = Append(@, <<"Cleared existing known errors.">>)]
    /\ UNCHANGED <<DATABASE_URL, initial, query, cls>>

\* cur.execute(TRUNCATE ...): the first statement opens the transaction; it
\* waits for every lock on the table, and its effect stays in the transaction.
SeedTruncate ==
    /\ seeder.pc = "connected"
    /\ ~ShareHeld
    /\ txn' = <<[table |-> Truncate(View), exclusive |-> TRUE]>>
    /\ seeder' = [seeder EXCEPT !.pc = "seeding",
                                !.replaced = <<committed.rows>>,
                                !.stdout = Append(@, <<"Cleared existing known errors.">>)]
    /\ UNCHANGED <<DATABASE_URL, committed, initial, query, cls>>

\* One turn of `for error in known_errors`: the embedding, then the INSERT,
\* in the open transaction (a statement opens one when none is open).
SeedInsert ==
    /\ seeder.pc = "seeding"
    /\ seeder.i < Len(known_errors)
    /\ LET error == known_errors[seeder.i + 1]
           embedding_str == PyStr(seed_get_embedding(error.errorText))
       IN  txn' = <<[table |-> Insert(View, error.errorText, embedding_str,
                                      error.solution, error.category),
                     exclusive |-> ExclusiveHeld]>>
    /\ seeder' = [seeder EXCEPT !.i = @ + 1]
    /\ UNCHANGED <<DATABASE_URL, committed, initial, query, cls>>

\* Mutant: the commit sits in a `finally`, so a failed run commits what it has.
DieCommitting(exception) ==
    /\ seeder' = [seeder EXCEPT !.pc = "crashed", !.exc = exception]
    /\ committed' = View
    /\ txn' = <<>>
    /\ UNCHANGED <<DATABASE_URL, initial, query, cls>>

\* An uncaught exception ends the process: the connection drops without a
\* commit and the server rolls the transaction back.
Die(exception) ==
    /\ seeder' = [seeder EXCEPT !.pc = "crashed", !.exc = exception]
    /\ txn' = <<>>
    /\ UNCHANGED <<DATABASE_URL, committed, initial, query, cls>>

\* get_embedding raises for the entry of this turn.
SeedEmbedderFails ==
    /\ seeder.pc = "seeding"
    /\ seeder.i < Len(known_errors)
    /\ Die("EmbedderError")

\* The INSERT of this turn raises.
SeedInsertFails ==
    /\ seeder.pc = "seeding"
    /\ seeder.i < Len(known_errors)
    /\ Die("DatabaseError")

\* conn.commit(): the transaction's table becomes the committed table.
SeedCommit ==
    /\ seeder.pc = "seeding"
    /\ seeder.i = Len(known_errors)
    /\ committed' = View
    /\ txn' = <<>>
    /\ seeder' = [seeder EXCEPT !.pc = "committed"]
    /\ UNCHANGED <<DATABASE_URL, initial, query, cls>>

\* cur.close(); conn.close(); print(f"Seeded {len(known_errors)} known errors.")
SeedReport ==
    /\ seeder.pc = "committed"
    /\ seeder' = [seeder EXCEPT !.pc = "done",
                                !.stdout = Append(@, <<"Seeded ", Len(known_errors), " known errors.">>)]
    /\ UNCHANGED <<DATABASE_URL, committed, initial, txn, query, cls>>

seed_known_errors ==
    \/ SeedNoUrl
    \/ SeedConnect
    \/ SeedConnectFails
    \/ SeedTruncate
    \/ SeedInsert
    \/ SeedEmbedderFails
    \/ SeedInsertFails
    \/ SeedCommit
    \/ SeedReport

\* ---------------------------------------------------------- classify_error
\* Mutant: the slice keeps the head, s[:-k], instead of the tail.
PySliceHead(s, k) ==
    LET n  == Len(s)
        hi == IF -k > n THEN n ELSE -k
    IN  SubSeq(s, 1, hi)

\* s[k:] of Python for a sequence s: a negative k counts from the end, and an
\* index past either end is clipped to it.
PySliceFrom(s, k) ==
    LET n  == Len(s)
        lo == IF k < 0 THEN (IF n + k < 0 THEN 0 ELSE n + k)
                       ELSE (IF k > n THEN n ELSE k)
    IN  SubSeq(s, lo + 1, n)

Window == 2048

\* A log text of n characters; pat varies its content.
LogText(n, pat) == [i \in 1..n |-> IF i % (pat + 2) = 0 THEN "E" ELSE "."]

LogLens == {0, 1} \cup ((Window - 1)..(Window + MaxOver))

\* data.get("log_text"): the key missing (None), or a text.
LogInputs ==
    {[has |-> FALSE, text |-> <<>>]}
        \cup { [has |-> TRUE, text |-> LogText(n, pat)] : n \in LogLens, pat \in 0..1 }

ShortLogInputs == {[has |-> FALSE, text |-> <<>>], [has |-> TRUE, text |-> LogText(1, 0)]}

\* data.get("labels"): the key missing (None), or a list.
LabelInputs ==
    { [has |-> FALSE, list |-> <<>>],
      [has |-> TRUE, list |-> <<>>],
      [has |-> TRUE, list |-> <<"Dependency Error">>],
      [has |-> TRUE, list |-> <<"Syntax Error", "Runtime Error", "Test Failure">>] }

FewLabelInputs ==
    { [has |-> TRUE, list |-> <<>>], [has |-> TRUE, list |-> <<"Dependency Error">>] }

\* The zero-shot pipeline refuses a call without labels: it raises.
ClassifierRaises(labels) == ~labels.has \/ labels.list = <<>>

\* What the zero-shot pipeline may answer: the candidate labels in some order
\* with scores that do not increase.  Which order is the model's business.
ClassifierResults(list) ==
    LET n == Len(list)
        rankings == { f \in [1..n -> 1..n] : \A a, b \in 1..n : a # b => f[a] # f[b] }
    IN  { [labels |-> [k \in 1..n |-> list[f[k]]],
           scores |-> [k \in 1..n |-> IF k = 1 THEN top ELSE (100 - top) \div n]]
          : f \in rankings, top \in {97, 34} }

\* log_text is None: `log_text[-2048:]` raises TypeError, which is not caught.
ClassifyNoLog(log, labels) ==
    /\ ~log.has
    /\ cls' = [NewClassify EXCEPT !.pc = "crashed", !.exc = "TypeError",
                                  !.labels = labels.list, !.has_labels = labels.has]
    /\ UNCHANGED <<DATABASE_URL, committed, initial, txn, seeder, query>>

\* The classifier is called with no labels and raises, which is not caught.
ClassifyNoLabels(log, labels) ==
    /\ log.has
    /\ ClassifierRaises(labels)
    /\ cls' = [NewClassify EXCEPT !.pc = "crashed",
                                  !.exc = IF labels.has THEN "ValueError" ELSE "TypeError",
                                  !.log_text = log.text, !.has_log = TRUE,
                                  !.labels = labels.list, !.has_labels = labels.has,
                                  !.truncated_log = PySliceFrom(log.text, -Window),
                                  !.called = {"Classifier"}]
    /\ UNCHANGED <<DATABASE_URL, committed, initial, txn, seeder, query>>

\* The classifier answers; its first label and score are printed.
ClassifyPrint(log, labels) ==
    /\ log.has
    /\ ~ClassifierRaises(labels)
    /\ \E result \in ClassifierResults(labels.list) :
         cls' = [NewClassify EXCEPT
                    !.pc = "done",
                    !.log_text = log.text, !.has_log = TRUE,
                    !.labels = labels.list, !.has_labels = TRUE,
                    !.truncated_log = PySliceFrom(log.text, -Window),
                    !.result = result,
                    !.called = {"Classifier"},
                    !.stdout = <<[category |-> result.labels[1],
                                  confidence |-> result.scores[1]]>>]
    /\ UNCHANGED <<DATABASE_URL, committed, initial, txn, seeder, query>>

classify_error(logs, labelses) ==
    \E log \in logs, labels \in labelses :
        \/ ClassifyNoLog(log, labels)
        \/ ClassifyNoLabels(log, labels)
        \/ ClassifyPrint(log, labels)

\* ---------------------------------------------------------- specifications
\* The seeder and the concurrent readers.
Next ==
    \/ \E p \in Queries : find_similarity(p, ConcurrentInputs)
    \/ seed_known_errors

Spec == Init /\ [][Next]_vars

\* One request at a time of each kind, over every input, beside the seeder.
NextRequests ==
    \/ find_similarity(1, ErrorTextInputs)
    \/ seed_known_errors
    \/ classify_error(ShortLogInputs, FewLabelInputs)

SpecRequests == Init /\ [][NextRequests]_vars

\* The classifier front end alone, over logs around the window's length.
NextClassify == classify_error(LogInputs, LabelInputs)

SpecClassify == Init /\ [][NextClassify]_vars

\* ------------------------------------------------------------------ claims
Curated == { known_errors[k] : k \in 1..Len(known_errors) }

Entry(r) == [errorText |-> r.errorText, solution |-> r.solution, category |-> r.category]

\* The rows are a whole seeded catalog: one row per curated entry, no other.
Complete(rows) ==
    /\ Cardinality(rows) = Len(known_errors)
    /\ { Entry(r) : r \in rows } = Curated

SeededLine == <<"Seeded ", Len(known_errors), " known errors.">>

NoTextError == <<[error |-> "No error_text provided"]>>
NoUrlError == <<[error |-> "DATABASE_URL not set in environment"]>>
NoMatch == <<[error |-> "No matches found"]>>

Finished(q) == q.pc \in {"done", "crashed"}

\* C1: every SELECT of a reader, whatever the seeder was doing, read either
\* the catalog as it was before any reseed or a whole seeded catalog; never
\* the truncated table, never a part of the new rows.
C1_ReadersSeeWholeCatalog ==
    \A p \in Queries :
        query[p].seen # <<>> =>
            \/ query[p].seen[1] = initial.rows
            \/ Complete(query[p].seen[1])

\* One reader read the old, non-empty catalog, another holds the result of a
\* read of the new one while the seeding process has not yet exited.
C1_Witness ==
    /\ seeder.pc = "committed"
    /\ initial.rows # {}
    /\ \E p, r \in Queries :
          /\ query[p].seen = <<initial.rows>>
          /\ query[r].pc = "fetched"
          /\ Complete(query[r].seen[1])

\* C2: once a reseed has committed, whatever it replaced, the table holds
\* exactly the curated entries, one row each, and the count reported is the
\* number of rows; a reseed of a seeded table leaves count and entries as
\* they were.
C2_ReseedCountAndIdempotence ==
    (seeder.pc \in {"committed", "done"} /\ seeder.replaced # <<>>) =>
        /\ Cardinality(committed.rows) = Len(known_errors)
        /\ { Entry(r) : r \in committed.rows } = Curated
        /\ seeder.pc = "done" =>
              seeder.stdout[Len(seeder.stdout)]
                  = <<"Seeded ", Cardinality(committed.rows), " known errors.">>
        /\ Complete(seeder.replaced[1]) =>
              /\ Cardinality(committed.rows) = Cardinality(seeder.replaced[1])
              /\ { Entry(r) : r \in committed.rows }
                    = { Entry(r) : r \in seeder.replaced[1] }

\* A reseed of an already seeded table has completed and reported.
C2_Witness ==
    /\ seeder.pc = "done"
    /\ seeder.replaced # <<>>
    /\ Complete(seeder.replaced[1])

\* C3: a reseed that fails after its TRUNCATE leaves the committed table as
\* it was at the TRUNCATE, with no transaction left open, and does not print
\* the "Seeded N" line; and the committed table is at no time a part of a
\* new catalog.
C3_FailedReseedLeavesCatalog ==
    /\ (seeder.pc = "crashed" /\ seeder.replaced # <<>>) =>
          /\ committed.rows = seeder.replaced[1]
          /\ txn = <<>>
          /\ \A k \in 1..Len(seeder.stdout) : seeder.stdout[k] # SeededLine
    /\ committed.rows = initial.rows \/ Complete(committed.rows)

\* The reseed of a non-empty table failed with some, not all, rows inserted.
C3_Witness ==
    /\ seeder.pc = "crashed"
    /\ seeder.replaced # <<>>
    /\ seeder.replaced[1] # {}
    /\ seeder.i \in 1..(Len(known_errors) - 1)

ClassifyBadInput == ~cls.has_log \/ ~cls.has_labels \/ cls.labels = <<>>

\* C4: a classify request without log_text, without labels or with an empty
\* label list ends with one structured error record on stdout, without an
\* exception and without the Classifier having been called.
C4_ClassifyRejectsBadInput ==
    (cls.pc \in {"done", "crashed"} /\ ClassifyBadInput) =>
        /\ cls.exc = None
        /\ "Classifier" \notin cls.called
        /\ Len(cls.stdout) = 1
        /\ "error" \in DOMAIN cls.stdout[1]

\* C5 as stated: every request prints exactly one output; without error_text
\* it is the caller error, before any collaborator is called; with a text and
\* no connection string it is the configuration error, with no crash and the
\* Store not contacted; each error message only for its own condition.
C5_OneOutputPerRequest ==
    \A p \in Queries :
        LET q == query[p] IN
        Finished(q) =>
            /\ Len(q.stdout) = 1
            /\ ~Truthy(q.error_text) => (q.stdout = NoTextError /\ q.called = {})
            /\ (Truthy(q.error_text) /\ ~Truthy(DATABASE_URL)) =>
                  /\ q.stdout = NoUrlError
                  /\ q.exc = None
                  /\ "Store" \notin q.called
            /\ q.stdout = NoTextError => ~Truthy(q.error_text)
            /\ q.stdout = NoUrlError => (Truthy(q.error_text) /\ ~Truthy(DATABASE_URL))
            /\ q.stdout = NoMatch => (Truthy(q.error_text) /\ Truthy(DATABASE_URL))

\* C5 as amended: a request prints one output unless an exception ended it,
\* and then none; without error_text it is the caller error, before any
\* collaborator is called; with a text and no connection string the Store is
\* not contacted, and the output is the configuration error if the Embedder,
\* which is called first, did not raise; each error message only for its own
\* condition.
C5_OneOutputUnlessRaised ==
    \A p \in Queries :
        LET q == query[p] IN
        Finished(q) =>
            /\ Len(q.stdout) = (IF q.exc = None THEN 1 ELSE 0)
            /\ ~Truthy(q.error_text) =>
                  (q.stdout = NoTextError /\ q.called = {} /\ q.exc = None)
            /\ (Truthy(q.error_text) /\ ~Truthy(DATABASE_URL)) =>
                  /\ "Store" \notin q.called
                  /\ q.exc = None => q.stdout = NoUrlError
                  /\ q.exc # None => q.exc = "EmbedderError"
            /\ q.stdout = NoTextError => ~Truthy(q.error_text)
            /\ q.stdout = NoUrlError => (Truthy(q.error_text) /\ ~Truthy(DATABASE_URL))
            /\ q.stdout = NoMatch =>
                  (Truthy(q.error_text) /\ Truthy(DATABASE_URL) /\ q.seen = <<{}>>)

\* A request with a text and no connection string printed the configuration
\* error, the Embedder called and the Store not.
C5_Witness ==
    \E p \in Queries :
        /\ query[p].pc = "done"
        /\ Truthy(query[p].error_text)
        /\ ~Truthy(DATABASE_URL)
        /\ query[p].stdout = NoUrlError
        /\ query[p].called = {"Embedder"}

\* C6: for a request with a text and a connection string, the no-match
\* output is printed exactly when its SELECT ran and read an empty table; a
\* read of an empty table ends in that output and no exception; a request an
\* exception ended printed nothing.
C6_NoMatchIffEmptyStore ==
    \A p \in Queries :
        LET q == query[p] IN
        (Finished(q) /\ Truthy(q.error_text) /\ Truthy(DATABASE_URL)) =>
            /\ q.stdout = NoMatch <=> q.seen = <<{}>>
            /\ q.seen = <<{}>> => (q.exc = None /\ q.best_match_row = <<>>)
            /\ q.exc # None => q.stdout = <<>>

\* A request read the empty table and printed the no-match output.
C6_Witness ==
    \E p \in Queries :
        /\ query[p].pc = "done"
        /\ query[p].seen = <<{}>>
        /\ query[p].stdout = NoMatch

\* C7: a SELECT that read a non-empty table returned one row of that table,
\* its cosine to the query vector the largest of any row read (so its cosine
\* distance the least), with similarity = 1 - that row's cosine distance,
\* which is the row's cosine to the query; the printed record is that row.
C7_NearestRowReturned ==
    \A p \in Queries :
        LET q   == query[p]
            v   == VectorIn(q.query_embedding_str)
            row == q.best_match_row
        IN
        (q.seen # <<>> /\ q.seen[1] # {}) =>
            /\ row # <<>>
            /\ \E r \in q.seen[1] :
                  /\ row[1] = r.id /\ row[2] = r.errorText
                  /\ row[3] = r.solution /\ row[4] = r.category
                  /\ \A o \in q.seen[1] :
                        Dot(v, r.errorEmbedding) * Norm(o.errorEmbedding)
                            >= Dot(v, o.errorEmbedding) * Norm(r.errorEmbedding)
                  /\ row[5] * Norm(v) * Norm(r.errorEmbedding)
                        = 100 * Dot(v, r.errorEmbedding)
            /\ q.pc = "done" =>
                  q.stdout = <<[id |-> row[1], errorText |-> row[2], solution |-> row[3],
                                category |-> row[4], similarity |-> row[5]]>>

\* Three rows at cosine distances 1.00 < 1.96 < 2.00 from the query: the row
\* at 1.00 (similarity 0) was printed.
C7_Witness ==
    \E p \in Queries :
        /\ query[p].pc = "done"
        /\ query[p].error_text = "Segmentation fault"
        /\ query[p].seen = <<OtherTable.rows>>
        /\ query[p].best_match_row # <<>>
        /\ query[p].best_match_row[1] = 8
        /\ query[p].best_match_row[5] = 0

\* C8: a query with the text of a curated entry that read a whole seeded
\* catalog returned a row with that entry's category at cosine distance 0,
\* that is similarity 1.
C8_SeededTextFindsItself ==
    \A p \in Queries : \A k \in 1..Len(known_errors) :
        LET q == query[p] IN
        (q.error_text = known_errors[k].errorText /\ q.seen # <<>> /\ Complete(q.seen[1])) =>
            /\ q.best_match_row # <<>>
            /\ q.best_match_row[2] = known_errors[k].errorText
            /\ q.best_match_row[4] = known_errors[k].category
            /\ q.best_match_row[5] = 100

\* The npm ERESOLVE entry was seeded, queried and printed with its category
\* and similarity 1.
C8_Witness ==
    \E p \in Queries :
        /\ query[p].pc = "done"
        /\ query[p].error_text = "npm ERR! ERESOLVE unable to resolve dependency tree"
        /\ query[p].seen # <<>>
        /\ Complete(query[p].seen[1])
        /\ query[p].best_match_row # <<>>
        /\ query[p].stdout[1].category = "Dependency Error"
        /\ query[p].stdout[1].similarity = 100

\* C9: the text handed to the Classifier is the last 2048 characters of the
\* log, in place and in order, when the log is longer, and the log itself
\* when it is not; the output is the first label and the first score of the
\* Classifier's answer.
C9_TrailingWindowAndTopLabel ==
    cls.pc = "done" =>
        LET s == cls.log_text
            t == cls.truncated_log
        IN  /\ Len(s) > 2048 =>
                  /\ Len(t) = 2048
                  /\ \A j \in 1..2048 : t[j] = s[Len(s) - 2048 + j]
            /\ Len(s) <= 2048 => t = s
            /\ cls.called = {"Classifier"}
            /\ cls.stdout = <<[category   |-> cls.result.labels[1],
                               confidence |-> cls.result.scores[1]]>>
            /\ \A k \in 1..Len(cls.result.scores) :
                  cls.result.scores[1] >= cls.result.scores[k]

\* A log longer than the window was classified, and its tail differs from
\* its head.
C9_Witness ==
    /\ cls.pc = "done"
    /\ Len(cls.log_text) > 2048
    /\ cls.truncated_log # SubSeq(cls.log_text, 1, 2048)
    /\ Len(cls.labels) > 1

\* The seeder's commit step, of the very catalog it truncated.
ReseedCommits ==
    /\ seeder.pc = "seeding"
    /\ seeder'.pc = "committed"
    /\ seeder.replaced = <<committed.rows>>
    /\ query' = query
    /\ cls' = cls

\* C10: in every step the committed table is left as it is, rows and id
\* sequence, unless the step is the commit of a reseed, which replaces the
\* whole table it truncated; no step of a query or of a classification
\* changes it, and no row is changed or removed in place.
C10_StoreChangesOnlyByReseed ==
    [][ committed' = committed
        \/ ReseedCommits ]_vars

\* A query, a classification and a reseed have all run: the query printed a
\* row of the initial catalog, which the reseed has since replaced.
C10_Witness ==
    /\ query[1].pc = "done"
    /\ query[1].seen = <<initial.rows>>
    /\ query[1].best_match_row # <<>>
    /\ cls.pc = "done"
    /\ seeder.pc = "done"
    /\ committed # initial

====
